---- MODULE Spec2Model ----
(***************************************************************************)
(* Crude Flow Monitoring dashboard (src/main.py).                          *)
(*                                                                         *)
(* The script is re-executed from top to bottom on every user action.  A   *)
(* session is the widget state the UI library keeps between two runs (the  *)
(* uploaded file, the date range, the comparison period) plus what the     *)
(* last run produced.  The export writes chart images and the report to    *)
(* fixed file names in the working directory, which all sessions share.    *)
(*                                                                         *)
(* Numbers are fixed point: Pressure in 1/10000 psi, Temperature in        *)
(* 1/5 degF, Flow_Rate in BPD; a mean is the floor of sum / count.         *)
(* A cell is <<>> (null, NaN) or <<v>>.  A Timestamp is a day number       *)
(* (midnight of that day), day 0 being 1 January of the first calendar     *)
(* year of the model.                                                      *)
(***************************************************************************)
EXTENDS Integers, Sequences, FiniteSets, TLC

VARIABLES
    active,         \* the sessions that are open
    pair_type,      \* the Python type the date control returns a pair as
    uploaded_file,  \* [s]: the file held by the uploader widget
    date_range,     \* [s]: the value of the date control
    compare_option, \* [s]: the value of the period selector
    trigger,        \* [s]: what caused the last run
    df_converted,   \* [s]: df after ingestion (lines 18-30)
    df_filtered,    \* [s]: df after the date filter (lines 36-38)
    df,             \* [s]: df after resample and merge (lines 44-48)
    model,          \* [s]: the fitted regression (lines 67-68)
    future_df,      \* [s]: the forecast series, <<>> when None
    shown,          \* [s]: the elements the last run rendered
    status,         \* [s]: how the last run ended
    pc,             \* [s]: position inside export_report
    chart,          \* [s]: index of the chart being saved / inserted
    pdf,            \* [s]: the document under construction
    download,       \* [s]: the report offered for download
    disk            \* the working directory: file name -> content

vars == <<active, pair_type, uploaded_file, date_range, compare_option, trigger,
          df_converted, df_filtered, df, model, future_df, shown, status,
          pc, chart, pdf, download, disk>>

---------------------------------------------------------------------------
(* Bounds of the model *)

MaxRows == 2        \* rows of an enumerated upload
BaseMonth == 12     \* month of the earliest reading
FarGap == 13        \* months from the earliest to the latest sampled reading
ScenarioDays == 181 \* length of the six-month daily upload

Sessions == {"s1", "s2"}

---------------------------------------------------------------------------
(* Calendar: what pandas Timestamps and month-end / year-end offsets do *)

IsLeap(y) == y % 4 = 0 /\ (y % 100 # 0 \/ y % 400 = 0)

\* days of a common year before each of its months
CumDays == <<0, 31, 59, 90, 120, 151, 181, 212, 243, 273, 304, 334>>

\* day number of the first day of a month
MonthStart(mi) ==
    LET yi == mi \div 12
        m == mi % 12
        leaps == Cardinality({y \in 2023..(2023 + yi - 1) : IsLeap(y)})
    IN  365 * yi + leaps + CumDays[m + 1]
            + (IF m >= 2 /\ IsLeap(2023 + yi) THEN 1 ELSE 0)

MonthEnd(mi) == MonthStart(mi + 1) - 1

\* the month a day falls in
MonthOf(d) ==
    CHOOSE mi \in (d \div 31)..(d \div 28) : MonthStart(mi) <= d /\ d <= MonthEnd(mi)

December(mi) == 12 * (mi \div 12) + 11

---------------------------------------------------------------------------
(* Tables *)

Expected == {"Timestamp", "Pressure", "Temperature", "Flow_Rate"}
Numeric == {"Pressure", "Temperature", "Flow_Rate"}

\* pd.DataFrame()
EmptyFrame == [cols |-> {}, rows |-> <<>>]

\* DataFrame.empty: an axis of length 0
IsEmpty(frame) == frame.cols = {} \/ frame.rows = <<>>

Min(S) == CHOOSE x \in S : \A y \in S : x <= y
Max(S) == CHOOSE x \in S : \A y \in S : y <= x

Range(seq) == {seq[i] : i \in 1..Len(seq)}

Days(rows) == {rows[i].Timestamp : i \in 1..Len(rows)}

RECURSIVE Sum(_)
Sum(seq) ==
    IF seq = <<>> THEN 0
    ELSE IF Len(seq) = 1 THEN seq[1]
    ELSE LET h == Len(seq) \div 2
         IN  Sum(SubSeq(seq, 1, h)) + Sum(SubSeq(seq, h + 1, Len(seq)))

\* Series.mean(): nulls skipped, null when nothing is left
Mean(cells) ==
    LET vals == SelectSeq(cells, LAMBDA c : c # <<>>)
    IN  IF vals = <<>> THEN <<>>
        ELSE << Sum([i \in 1..Len(vals) |-> vals[i][1]]) \div Len(vals) >>

Column(rows, c) == [i \in 1..Len(rows) |-> rows[i][c]]

Row(d, p, t, f) == [Timestamp |-> d, Pressure |-> p, Temperature |-> t, Flow_Rate |-> f]

---------------------------------------------------------------------------
(* Ingestion and unit conversion, lines 18-30 *)

PsiPerBar == 145038     \* 14.5038 psi per bar, in 1/10000 psi
FifthsPerDegC == 9      \* 9/5 degF per degC, in 1/5 degF
FifthsOffset == 160     \* 32 degF, in 1/5 degF

NoFile == [present |-> FALSE, readable |-> FALSE, cols |-> {}, rows |-> <<>>]

\* df["Pressure"] * 14.5038
ConvertPressure(c) == IF c = <<>> THEN <<>> ELSE << c[1] * PsiPerBar >>

\* the conversion applied to an already converted value (degF in, 1/5 degF out)
ConvertTemperatureTwice(c) ==
    IF c = <<>> THEN <<>>
    ELSE << ((c[1] * FifthsPerDegC + FifthsOffset) * FifthsPerDegC) \div 5 + FifthsOffset >>
\* df["Temperature"] * 9/5 + 32
ConvertTemperature(c) == IF c = <<>> THEN <<>> ELSE << c[1] * FifthsPerDegC + FifthsOffset >>

ConvertRow(r) == [r EXCEPT !.Pressure = ConvertPressure(r.Pressure),
                           !.Temperature = ConvertTemperature(r.Temperature)]

\* pd.read_excel: the sheet as a frame, or an exception
ReadExcel(file) ==
    IF file.readable THEN [raised |-> FALSE, frame |-> [cols |-> file.cols, rows |-> file.rows]]
    ELSE [raised |-> TRUE, frame |-> EmptyFrame]

\* A KeyError on either converted column leaves the half-converted frame behind
IngestKeepsFrameOnError(file) ==
    IF ~file.present THEN [frame |-> EmptyFrame, message |-> "warning"]
    ELSE LET r == ReadExcel(file)
         IN  IF r.raised THEN [frame |-> EmptyFrame, message |-> "error"]
             ELSE IF ~({"Pressure", "Temperature"} \subseteq r.frame.cols)
                  THEN [frame |-> r.frame, message |-> "error"]
             ELSE [frame |-> [cols |-> r.frame.cols \cup {"Data_Entry_Name"},
                              rows |-> [i \in 1..Len(r.frame.rows) |-> ConvertRow(r.frame.rows[i])]],
                   message |-> "success"]

\* if uploaded_file is not None: try ... except ... else ...
Ingest(file) ==
    IF ~file.present THEN [frame |-> EmptyFrame, message |-> "warning"]
    ELSE LET r == ReadExcel(file)
         IN  IF r.raised THEN [frame |-> EmptyFrame, message |-> "error"]
             ELSE IF ~({"Pressure", "Temperature"} \subseteq r.frame.cols)
                  THEN [frame |-> EmptyFrame, message |-> "error"]
             ELSE [frame |-> [cols |-> r.frame.cols \cup {"Data_Entry_Name"},
                              rows |-> [i \in 1..Len(r.frame.rows) |-> ConvertRow(r.frame.rows[i])]],
                   message |-> "success"]

---------------------------------------------------------------------------
(* Date range filter, lines 36-38 *)

\* the date control holds nothing until it is rendered
Unset == [type |-> "unset", start |-> 0, end |-> 0]

\* st.date_input(..., [min, max]) on a fresh widget; pairType is the Python type
\* the UI library hands a pair of dates back as
DefaultRange(rows, pairType) ==
    [type |-> pairType, start |-> Min(Days(rows)), end |-> Max(Days(rows))]

\* isinstance(date_range, list) and len(date_range) == 2
FilterApplies(dr) == dr.type = "list"

InRange(r, dr) == dr.start <= r.Timestamp /\ r.Timestamp <= dr.end

FilterRows(rows, dr) ==
    IF FilterApplies(dr) THEN SelectSeq(rows, LAMBDA r : InRange(r, dr)) ELSE rows

---------------------------------------------------------------------------
(* Resample and merge, lines 40-48 *)

Options == {"3 Months", "4 Months", "Semi-Annual", "Annual"}

\* comparison_map, as a count of month-end ("M") or year-end ("A") offsets
ComparisonMapSemiAnnualAsQuarter(option) ==
    CASE option = "3 Months" -> [n |-> 3, anchor |-> "M"]
      [] option = "4 Months" -> [n |-> 4, anchor |-> "M"]
      [] option = "Semi-Annual" -> [n |-> 3, anchor |-> "M"]
      [] option = "Annual" -> [n |-> 1, anchor |-> "A"]
ComparisonMap(option) ==
    CASE option = "3 Months" -> [n |-> 3, anchor |-> "M"]
      [] option = "4 Months" -> [n |-> 4, anchor |-> "M"]
      [] option = "Semi-Annual" -> [n |-> 6, anchor |-> "M"]
      [] option = "Annual" -> [n |-> 1, anchor |-> "A"]

\* months between two offsets of the frequency
UnitMonths(f) == IF f.anchor = "M" THEN 1 ELSE 12
StepMonths(f) == f.n * UnitMonths(f)

\* the month whose last day is the first offset on or after day d
AnchorMonth(d, f) == IF f.anchor = "M" THEN MonthOf(d) ELSE December(MonthOf(d))
OnOffset(d, f) == d = MonthEnd(AnchorMonth(d, f))

\* first = first.normalize() - freq; last = last.normalize() + freq
FirstEdge(d, f) == AnchorMonth(d, f) - StepMonths(f)
LastEdge(d, f) ==
    IF OnOffset(d, f) THEN AnchorMonth(d, f) + StepMonths(f)
    ELSE AnchorMonth(d, f) + StepMonths(f) - UnitMonths(f)

\* date_range(start=first, end=last, freq=freq), as month indexes
DateRange(first, last, step) == [j \in 1..(((last - first) \div step) + 1) |-> first + (j - 1) * step]

\* _adjust_bin_edges: drop the last edge when the one before it ends after the data
AdjustBinEdges(binner, maxDay) ==
    IF Len(binner) >= 2 /\ MonthEnd(binner[Len(binner) - 1]) >= maxDay
    THEN SubSeq(binner, 1, Len(binner) - 1)
    ELSE binner

\* the bin edges (month indexes) of resample(freq) over the rows
Binner(rows, f) ==
    LET lo == Min(Days(rows))
        hi == Max(Days(rows))
    IN  AdjustBinEdges(DateRange(FirstEdge(lo, f), LastEdge(hi, f), StepMonths(f)), hi)

\* closed = "right": the bin (edge[i], edge[i+1]], labelled by its right edge
InBin(r, binner, i) ==
    MonthEnd(binner[i]) < r.Timestamp /\ r.Timestamp <= MonthEnd(binner[i + 1])

BucketMean(rows, cols, c) == IF c \in cols THEN Mean(Column(rows, c)) ELSE <<>>

\* df_numeric.set_index(df["Timestamp"]).resample(freq).mean().reset_index()
Resample(rows, cols, f) ==
    IF rows = <<>> THEN <<>>
    ELSE LET binner == Binner(rows, f)
         IN  [i \in 1..(Len(binner) - 1) |->
                LET members == SelectSeq(rows, LAMBDA r : InBin(r, binner, i))
                IN  Row(MonthEnd(binner[i + 1]),
                        BucketMean(members, cols, "Pressure"),
                        BucketMean(members, cols, "Temperature"),
                        BucketMean(members, cols, "Flow_Rate"))]

Repeat(x, n) == [i \in 1..n |-> x]

\* left.merge(right, on="Timestamp", how="left"): one output row per matching
\* right row, one row when nothing matches
RECURSIVE MergeLeft(_, _)
MergeLeft(left, right) ==
    IF left = <<>> THEN <<>>
    ELSE LET hits == Len(SelectSeq(right, LAMBDA r : r.Timestamp = Head(left).Timestamp))
         IN  Repeat(Head(left), IF hits = 0 THEN 1 ELSE hits) \o MergeLeft(Tail(left), right)

---------------------------------------------------------------------------
(* Flow Rate Prediction, lines 62-78 *)

Horizon == 30

IsComplete(r) == r.Flow_Rate # <<>> /\ r.Pressure # <<>> /\ r.Temperature # <<>>

\* df.dropna(subset=["Flow_Rate", "Pressure", "Temperature"])
DropNa(rows) == SelectSeq(rows, IsComplete)

Values(rows, c) == {rows[i][c][1] : i \in 1..Len(rows)}

\* np.linspace(lo, hi, n, endpoint=False)
LinspaceOpen(lo, hi, n) == [i \in 1..n |-> lo + (((i - 1) * (hi - lo)) \div n)]
\* np.linspace(lo, hi, n)
Linspace(lo, hi, n) == [i \in 1..n |-> lo + (((i - 1) * (hi - lo)) \div (n - 1))]

\* LinearRegression().fit(X, y): the least-squares fit is the library's; the fitted
\* model is kept as the training data that determines it.  No sample: ValueError.
Fit(rows) ==
    IF rows = <<>> THEN [raised |-> TRUE, X |-> <<>>, y |-> <<>>]
    ELSE [raised |-> FALSE,
          X |-> [i \in 1..Len(rows) |-> <<rows[i].Pressure[1], rows[i].Temperature[1]>>],
          y |-> [i \in 1..Len(rows) |-> rows[i].Flow_Rate[1]]]

NoModel == [raised |-> TRUE, X |-> <<>>, y |-> <<>>]

\* X_pred, lines 71-74
XPred(rows) ==
    LET gp == Linspace(Min(Values(rows, "Pressure")), Max(Values(rows, "Pressure")), Horizon)
        gt == Linspace(Min(Values(rows, "Temperature")), Max(Values(rows, "Temperature")), Horizon)
    IN  [i \in 1..Horizon |-> [Pressure |-> gp[i], Temperature |-> gt[i]]]

\* future_df: point i is Day i with model.predict evaluated at X_pred row i
FutureDf(rows) ==
    LET x == XPred(rows)
    IN  [i \in 1..Horizon |-> [Day |-> i, at |-> x[i]]]

---------------------------------------------------------------------------
(* One execution of the script, lines 11-149 (up to the export button) *)

NumericCols(cols) == cols \cap Numeric

RunScript(file, widgetRange, widgetOption, pairType) ==
    LET ing == Ingest(file)
        none == [converted |-> ing.frame, filtered |-> ing.frame, table |-> ing.frame,
                 model |-> NoModel, future |-> <<>>, range |-> Unset,
                 option |-> "3 Months", shown |-> {ing.message}, status |-> "gated"]
    IN  IF IsEmpty(ing.frame) THEN none
        ELSE IF "Timestamp" \notin ing.frame.cols
        THEN [none EXCEPT !.shown = {ing.message, "dataframe"}, !.status = "KeyError"]
        ELSE
        LET dr == IF widgetRange = Unset THEN DefaultRange(ing.frame.rows, pairType)
                  ELSE widgetRange
            kept == FilterRows(ing.frame.rows, dr)
            cols == NumericCols(ing.frame.cols)
            merged == MergeLeft(Resample(kept, cols, ComparisonMap(widgetOption)), kept)
            table == [cols |-> {"Timestamp", "Data_Entry_Name"} \cup cols, rows |-> merged]
            charts == {"dataframe", "date_input", "selectbox", ing.message}
                      \cup (IF "Flow_Rate" \in table.cols THEN {"chart_flow"} ELSE {})
                      \cup (IF "Pressure" \in table.cols THEN {"chart_pressure"} ELSE {})
                      \cup (IF "Temperature" \in table.cols THEN {"chart_temperature"} ELSE {})
            upto == [converted |-> ing.frame,
                     filtered |-> [cols |-> ing.frame.cols, rows |-> kept],
                     table |-> table, model |-> NoModel, future |-> <<>>, range |-> dr,
                     option |-> widgetOption, shown |-> charts, status |-> "complete"]
        IN  IF {"Pressure", "Temperature"} \subseteq table.cols
            THEN IF "Flow_Rate" \notin table.cols
                 THEN [upto EXCEPT !.status = "KeyError"]
                 ELSE LET ml == DropNa(table.rows)
                          fit == Fit(ml)
                      IN  IF fit.raised THEN [upto EXCEPT !.status = "ValueError"]
                          ELSE [upto EXCEPT !.model = fit, !.future = FutureDf(ml),
                                            !.shown = charts \cup {"chart_prediction", "button"}]
            ELSE [upto EXCEPT !.shown = charts \cup {"button"}]

---------------------------------------------------------------------------
(* export_report, lines 80-147, and the download link, lines 149-154 *)

ReportFile == "crude_flow_report.pdf"

FileNames == {"flow.png", "pressure.png", "temperature.png", "prediction.png", ReportFile}

\* the figures saved and inserted, in order; the fourth only with a forecast
Figures(future) ==
    <<"flow.png", "pressure.png", "temperature.png">>
    \o (IF future # <<>> THEN <<"prediction.png">> ELSE <<>>)

\* what a file holds: who wrote it, whether during the writer's latest export
\* ("this") or an earlier one, which figure or document, and its embedded images
Absent == [by |-> "nobody", run |-> "none", holds |-> "nothing", images |-> 0]
Written(s, what, n) == [by |-> s, run |-> "this", holds |-> what, images |-> n]

Item(kind, text, content) == [kind |-> kind, text |-> text, content |-> content]

\* lines 84-93: the title, then the summary block of a non-empty table
Heading(table) ==
    <<Item("title", <<>>, Absent)>>
    \o (IF IsEmpty(table) THEN <<>>
        ELSE <<Item("span", <<Min(Days(table.rows)), Max(Days(table.rows))>>, Absent),
               Item("avg_flow", Mean(Column(table.rows, "Flow_Rate")), Absent),
               Item("avg_pressure", Mean(Column(table.rows, "Pressure")), Absent),
               Item("avg_temperature", Mean(Column(table.rows, "Temperature")), Absent),
               Item("entry_name", <<>>, Absent)>>)

\* lines 140-145: the units note of a non-empty table, then the timestamp
Footer(table) ==
    (IF IsEmpty(table) THEN <<>> ELSE <<Item("note", <<>>, Absent)>>)
    \o <<Item("generated", <<>>, Absent)>>

Images(doc) == SelectSeq(doc, LAMBDA it : it.kind = "image")

\* save_and_insert: pdf.image(filename) reads the file fig.savefig(filename) wrote
InsertedFileAlwaysFlow(filename) == "flow.png"
InsertedFile(filename) == filename

\* a session's earlier files stop being those of its latest export
Age(files, s) ==
    [f \in FileNames |-> IF files[f].by = s THEN [files[f] EXCEPT !.run = "earlier"] ELSE files[f]]

---------------------------------------------------------------------------
(* Uploads offered to the uploader *)

SampleDays == {MonthStart(BaseMonth), MonthEnd(BaseMonth), MonthStart(BaseMonth + FarGap)}

\* (bar, degC, BPD) of a reading; the second lacks its flow rate
Readings == { <<(<<1>>), (<<10>>), (<<100>>)>>, <<(<<2>>), (<<20>>), (<<>>)>> }

RowPool == {Row(d, r[1], r[2], r[3]) : d \in SampleDays, r \in Readings}

\* the sheets of up to MaxRows readings, in time order
InTimeOrder(t) == \A i \in 1..(Len(t) - 1) : t[i].Timestamp <= t[i + 1].Timestamp

Tables == UNION {{t \in [1..n -> RowPool] : InTimeOrder(t)} : n \in 0..MaxRows}

Sheet(cols, rows) == [present |-> TRUE, readable |-> TRUE, cols |-> cols, rows |-> rows]

\* a sheet without column c: its cells are null
Without(rows, c) ==
    [i \in 1..Len(rows) |-> IF c = "Timestamp" THEN rows[i] ELSE [rows[i] EXCEPT ![c] = <<>>]]

TwoReadings == <<Row(MonthStart(BaseMonth), <<1>>, <<10>>, <<100>>),
                 Row(MonthStart(BaseMonth + FarGap), <<2>>, <<20>>, <<300>>)>>

\* six months of daily readings: 1..2 bar, 10..20 degC, flow linear in both
Scenario ==
    [i \in 1..ScenarioDays |->
        LET bar == 1 + ((2 * (i - 1)) \div ScenarioDays)
            degC == 10 + ((10 * (i - 1)) \div (ScenarioDays - 1))
        IN  Row(MonthStart(BaseMonth) + i - 1, <<bar>>, <<degC>>, <<2 * bar + 3 * degC + 5>>)]

ScenarioFile == Sheet(Expected, Scenario)

Unreadable == [present |-> TRUE, readable |-> FALSE, cols |-> {}, rows |-> <<>>]

SharedFile == Sheet(Expected, TwoReadings)

Files ==
    {Unreadable, ScenarioFile, SharedFile}
    \cup {Sheet(Expected, t) : t \in Tables}
    \cup {Sheet(Expected \ {c}, Without(TwoReadings, c)) : c \in Expected}

PairTypes == {"list", "tuple"}

\* the values the date control can be set to: a pair of dates among the first and
\* the last day of the data, the day after the data, or one date
DateChoices(rows, pairType) ==
    LET lo == Min(Days(rows))
        hi == Max(Days(rows))
    IN  {[type |-> pairType, start |-> q[1], end |-> q[2]] :
            q \in {<<lo, lo>>, <<lo, hi>>, <<hi, hi>>, <<hi + 1, hi + 1>>}}
        \cup {[type |-> "date", start |-> lo, end |-> lo]}

---------------------------------------------------------------------------
(* The sessions *)

\* what a run leaves on the page and in the script's globals
Show(s, file, r, cause) ==
    /\ uploaded_file' = [uploaded_file EXCEPT ![s] = file]
    /\ date_range' = [date_range EXCEPT ![s] = r.range]
    /\ compare_option' = [compare_option EXCEPT ![s] = r.option]
    /\ trigger' = [trigger EXCEPT ![s] = cause]
    /\ df_converted' = [df_converted EXCEPT ![s] = r.converted]
    /\ df_filtered' = [df_filtered EXCEPT ![s] = r.filtered]
    /\ df' = [df EXCEPT ![s] = r.table]
    /\ model' = [model EXCEPT ![s] = r.model]
    /\ future_df' = [future_df EXCEPT ![s] = r.future]
    /\ shown' = [shown EXCEPT ![s] = r.shown]
    /\ status' = [status EXCEPT ![s] = r.status]

\* a run in which the export button is not pressed
Rerun(s, file, widgetRange, widgetOption, cause) ==
    \E r \in {RunScript(file, widgetRange, widgetOption, pair_type)} :
        /\ Show(s, file, r, cause)
        /\ pc' = [pc EXCEPT ![s] = "idle"]
        /\ chart' = [chart EXCEPT ![s] = 1]
        /\ pdf' = [pdf EXCEPT ![s] = <<>>]
        /\ download' = [download EXCEPT ![s] = Absent]
        /\ UNCHANGED <<active, pair_type, disk>>

FirstRun == RunScript(NoFile, Unset, "3 Months", "list")

Opened(sessions) ==
    \E r \in {FirstRun} :
        /\ active = sessions
        /\ pair_type \in PairTypes
        /\ uploaded_file = [s \in Sessions |-> NoFile]
        /\ date_range = [s \in Sessions |-> r.range]
        /\ compare_option = [s \in Sessions |-> r.option]
        /\ trigger = [s \in Sessions |-> "file"]
        /\ df_converted = [s \in Sessions |-> r.converted]
        /\ df_filtered = [s \in Sessions |-> r.filtered]
        /\ df = [s \in Sessions |-> r.table]
        /\ model = [s \in Sessions |-> r.model]
        /\ future_df = [s \in Sessions |-> r.future]
        /\ shown = [s \in Sessions |-> r.shown]
        /\ status = [s \in Sessions |-> r.status]
        /\ pc = [s \in Sessions |-> "idle"]
        /\ chart = [s \in Sessions |-> 1]
        /\ pdf = [s \in Sessions |-> <<>>]
        /\ download = [s \in Sessions |-> Absent]
        /\ disk = [f \in FileNames |-> Absent]

Init == Opened({"s1"})

InitShared == \E n \in {{"s1"}, Sessions} : Opened(n)

\* the session is open and its script is not running
Idle(s) == s \in active /\ pc[s] = "idle"

\* st.file_uploader: a file is supplied to the empty uploader; the date control
\* starts afresh. Replacing a file is RemoveFile followed by Upload: both runs
\* reset the date control and keep the period, so the resulting state is the same.
Upload(s) ==
    /\ Idle(s)
    /\ ~uploaded_file[s].present
    /\ \E f \in Files : Rerun(s, f, Unset, compare_option[s], "file")

UploadShared(s) ==
    /\ Idle(s)
    /\ ~uploaded_file[s].present
    /\ Rerun(s, SharedFile, Unset, compare_option[s], "file")

\* st.file_uploader: the file is removed
RemoveFile(s) ==
    /\ Idle(s)
    /\ uploaded_file[s].present
    /\ Rerun(s, NoFile, Unset, compare_option[s], "file")

\* st.text_input: the entry name is edited
EditEntryName(s) ==
    /\ Idle(s)
    /\ Rerun(s, uploaded_file[s], date_range[s], compare_option[s], "rerun")

\* st.date_input: another range, or a single date, is picked
SetDateRange(s) ==
    /\ Idle(s)
    /\ "date_input" \in shown[s]
    /\ \E v \in DateChoices(df_converted[s].rows, pair_type) \ {date_range[s]} :
          Rerun(s, uploaded_file[s], v, compare_option[s], "rerun")

\* st.selectbox: another period is picked
SetCompareOption(s) ==
    /\ Idle(s)
    /\ "selectbox" \in shown[s]
    /\ \E o \in Options \ {compare_option[s]} :
          Rerun(s, uploaded_file[s], date_range[s], o, "rerun")

\* st.button pressed: the run reaches line 149 and enters export_report,
\* lines 81-93, up to the first savefig
ClickExport(s) ==
    /\ Idle(s)
    /\ "button" \in shown[s]
    /\ \E r \in {RunScript(uploaded_file[s], date_range[s], compare_option[s], pair_type)} :
        /\ Show(s, uploaded_file[s], r, "rerun")
        /\ download' = [download EXCEPT ![s] = Absent]
        /\ chart' = [chart EXCEPT ![s] = 1]
        /\ IF "button" \in r.shown
           THEN /\ pdf' = [pdf EXCEPT ![s] = Heading(r.table)]
                /\ disk' = Age(disk, s)
                /\ pc' = [pc EXCEPT ![s] = IF IsEmpty(r.table) THEN "output" ELSE "savefig"]
           ELSE /\ pdf' = [pdf EXCEPT ![s] = <<>>]
                /\ pc' = [pc EXCEPT ![s] = "idle"]
                /\ UNCHANGED disk
        /\ UNCHANGED <<active, pair_type>>

Frozen == <<active, pair_type, uploaded_file, date_range, compare_option, trigger,
            df_converted, df_filtered, df, model, future_df, shown, status>>

\* save_and_insert, line 96: fig.savefig(filename)
SaveFig(s) ==
    /\ pc[s] = "savefig"
    /\ LET filename == Figures(future_df[s])[chart[s]]
       IN  disk' = [disk EXCEPT ![filename] = Written(s, filename, 0)]
    /\ pc' = [pc EXCEPT ![s] = "image"]
    /\ UNCHANGED <<Frozen, chart, pdf, download>>

\* save_and_insert, lines 97-98: pdf.image(filename)
InsertImage(s) ==
    /\ pc[s] = "image"
    /\ LET filename == Figures(future_df[s])[chart[s]]
       IN  pdf' = [pdf EXCEPT ![s] = Append(@, Item("image", filename, disk[InsertedFile(filename)]))]
    /\ IF chart[s] < Len(Figures(future_df[s]))
       THEN /\ chart' = [chart EXCEPT ![s] = @ + 1]
            /\ pc' = [pc EXCEPT ![s] = "savefig"]
       ELSE /\ chart' = chart
            /\ pc' = [pc EXCEPT ![s] = "output"]
    /\ UNCHANGED <<Frozen, download, disk>>

\* lines 140-147: the note, the timestamp, pdf.output("crude_flow_report.pdf")
Output(s) ==
    /\ pc[s] = "output"
    /\ pdf' = [pdf EXCEPT ![s] = @ \o Footer(df[s])]
    /\ disk' = [disk EXCEPT ![ReportFile] = Written(s, ReportFile, Len(Images(pdf[s])))]
    /\ pc' = [pc EXCEPT ![s] = "open"]
    /\ UNCHANGED <<Frozen, chart, download>>

\* lines 150-154: the report file is read back and offered for download
ReadBack(s) ==
    /\ pc[s] = "open"
    /\ download' = [download EXCEPT ![s] = disk[ReportFile]]
    /\ pc' = [pc EXCEPT ![s] = "idle"]
    /\ UNCHANGED <<Frozen, chart, pdf, disk>>

Next ==
    \E s \in Sessions :
        \/ Upload(s)
        \/ RemoveFile(s)
        \/ EditEntryName(s)
        \/ SetDateRange(s)
        \/ SetCompareOption(s)
        \/ ClickExport(s)
        \/ SaveFig(s)
        \/ InsertImage(s)
        \/ Output(s)
        \/ ReadBack(s)

Spec == Init /\ [][Next]_vars

\* several sessions that upload and export in one working directory
NextShared ==
    \E s \in Sessions :
        \/ UploadShared(s)
        \/ ClickExport(s)
        \/ SaveFig(s)
        \/ InsertImage(s)
        \/ Output(s)
        \/ ReadBack(s)

SpecShared == InitShared /\ [][NextShared]_vars

---------------------------------------------------------------------------
(* Properties *)

ChartOf(c) ==
    CASE c = "Flow_Rate" -> "chart_flow"
      [] c = "Pressure" -> "chart_pressure"
      [] c = "Temperature" -> "chart_temperature"

\* C1: a sheet that lacks an expected column still gets a complete run, in which
\* exactly the charts of the columns it has are drawn: no uncaught failure, no
\* empty-table state.
C1_MissingColumnSkipsOnlyItsSteps ==
    \A s \in active :
        LET f == uploaded_file[s]
        IN  (pc[s] = "idle" /\ f.present /\ f.readable /\ f.rows # <<>> /\ f.cols # Expected)
            => /\ status[s] = "complete"
               /\ "button" \in shown[s]
               /\ \A c \in Numeric : (ChartOf(c) \in shown[s]) <=> (c \in f.cols)

\* C2: when the forecast step is entered with fewer than 2 complete rows, no
\* forecast series is produced and the run still reaches the export button.
C2_InsufficientDataSkipsForecast ==
    \A s \in active :
        ("selectbox" \in shown[s] /\ Numeric \subseteq df[s].cols
            /\ Len(DropNa(df[s].rows)) < 2)
        => (future_df[s] = <<>> /\ status[s] = "complete" /\ "button" \in shown[s])

\* the calendar buckets of the frequency from the one holding lo to the one holding hi
BucketCount(lo, hi, f) ==
    1 + ((AnchorMonth(hi, f) - AnchorMonth(lo, f) + StepMonths(f) - 1) \div StepMonths(f))

\* C3: the resampled and merged table of a non-empty filtered table has exactly one
\* row per calendar bucket spanning [min(Timestamp), max(Timestamp)].
C3_RowCountIsBucketCount ==
    \A s \in active :
        ("selectbox" \in shown[s] /\ df_filtered[s].rows # <<>>)
        => Len(df[s].rows) =
             BucketCount(Min(Days(df_filtered[s].rows)), Max(Days(df_filtered[s].rows)),
                         ComparisonMap(compare_option[s]))

\* what holds instead: the resampled table, before the merge, has one row per bucket
ResampledCountIsBucketCount ==
    \A s \in active :
        ("selectbox" \in shown[s] /\ df_filtered[s].rows # <<>>)
        => LET f == ComparisonMap(compare_option[s])
               rows == df_filtered[s].rows
           IN  Len(Resample(rows, Numeric, f)) = BucketCount(Min(Days(rows)), Max(Days(rows)), f)

\* C4: an export of the empty table holds only the title and the timestamp, and a
\* run that leaves the empty table (a date range that keeps no row) does offer the
\* export button.
C4_EmptyTableExportIsOffered ==
    \A s \in active :
        /\ (pc[s] = "open" /\ IsEmpty(df[s]))
              => (Len(pdf[s]) = 2 /\ pdf[s][1].kind = "title" /\ pdf[s][2].kind = "generated")
        /\ (pc[s] = "idle" /\ uploaded_file[s].cols = Expected
                /\ "selectbox" \in shown[s] /\ IsEmpty(df[s]))
              => "button" \in shown[s]

\* what holds instead: export_report never runs on an empty table
ExportNeverSeesEmptyTable == \A s \in active : pc[s] # "idle" => ~IsEmpty(df[s])

Raises(f) == f.present /\ (~f.readable \/ ~({"Pressure", "Temperature"} \subseteq f.cols))

\* C5: while the uploader holds a file whose reading or conversion raises, every run
\* shows the error and nothing else, and leaves the empty table: no filter, resample,
\* chart, forecast or export.
C5_IngestionErrorBlocksRun ==
    \A s \in active :
        Raises(uploaded_file[s])
        => /\ shown[s] = {"error"}
           /\ df_converted[s] = EmptyFrame /\ df_filtered[s] = EmptyFrame /\ df[s] = EmptyFrame
           /\ future_df[s] = <<>>
           /\ status[s] = "gated" /\ pc[s] = "idle"

C5_Witness == \E s \in active : Raises(uploaded_file[s]) /\ trigger[s] = "rerun"

\* C6: after every run, first or later, each row the pipeline reads carries the raw
\* Pressure times 14.5038 and the raw Temperature times 9/5 plus 32, applied once.
C6_ConvertedExactlyOnce ==
    \A s \in active :
        "success" \in shown[s]
        => LET raw == uploaded_file[s].rows
               got == df_converted[s].rows
           IN  /\ Len(got) = Len(raw)
               /\ \A i \in 1..Len(raw) :
                    /\ got[i].Timestamp = raw[i].Timestamp
                    /\ got[i].Flow_Rate = raw[i].Flow_Rate
                    /\ got[i].Pressure = << raw[i].Pressure[1] * 145038 >>
                    /\ got[i].Temperature = << 9 * raw[i].Temperature[1] + 160 >>
               /\ Range(df_filtered[s].rows) \subseteq Range(got)

C6_Witness ==
    \E s \in active :
        /\ "success" \in shown[s] /\ trigger[s] = "rerun" /\ "button" \in shown[s]
        /\ df_filtered[s].rows # <<>> /\ date_range[s].type = "list"

\* C7: a pair (start, end) keeps exactly the rows with start <= Timestamp <= end; a
\* single date keeps every row.
C7_PairFiltersInclusive ==
    \A s \in active :
        "date_input" \in shown[s]
        => LET dr == date_range[s]
               rows == df_converted[s].rows
           IN  df_filtered[s].rows =
                 IF dr.type = "date" THEN rows
                 ELSE SelectSeq(rows, LAMBDA r : dr.start <= r.Timestamp /\ r.Timestamp <= dr.end)

\* what holds instead: the pair filters when the control returns it as a list
ListPairFiltersInclusive == pair_type = "list" => C7_PairFiltersInclusive

InScenario(s) ==
    /\ uploaded_file[s] = ScenarioFile
    /\ compare_option[s] = "Semi-Annual"
    /\ date_range[s].type \in PairTypes
    /\ date_range[s].start = Min(Days(Scenario)) /\ date_range[s].end = Max(Days(Scenario))

ScenarioYields(s, buckets) ==
    /\ Len(df[s].rows) = buckets
    /\ Len(future_df[s]) = 30
    /\ pc[s] = "open" => Len(Images(pdf[s])) = 4

\* C8, as claimed: six months of daily readings under Semi-Annual and the full date
\* range give 1 bucket, a 30-point forecast and 4 chart images in the report.
C8_ScenarioOneBucket == \A s \in active : InScenario(s) => ScenarioYields(s, 1)

\* C8, amended: they give 2 buckets, a 30-point forecast and 4 chart images.
C8_ScenarioTwoBuckets == \A s \in active : InScenario(s) => ScenarioYields(s, 2)

C8_Witness == \E s \in active : InScenario(s) /\ pc[s] = "open"

OwnFresh(s, content, what) == content.by = s /\ content.run = "this" /\ content.holds = what

\* C9: with a single session, every image a report embeds and every report offered
\* for download was written by that session in that very export.
C9_SingleSessionReadsOwnFiles ==
    Cardinality(active) = 1
    => \A s \in active :
          /\ \A i \in 1..Len(pdf[s]) :
                pdf[s][i].kind = "image" => OwnFresh(s, pdf[s][i].content, pdf[s][i].text)
          /\ download[s] # Absent
                => OwnFresh(s, download[s], ReportFile) /\ download[s].images = Len(Images(pdf[s]))

\* with two sessions: a report embeds an image the other session wrote, and the
\* report offered for download is the other session's
C9_Witness ==
    \E s \in active :
        /\ \E i \in 1..Len(pdf[s]) :
              pdf[s][i].kind = "image" /\ pdf[s][i].content.by \in active \ {s}
        /\ download[s].by \in active \ {s}

\* C10: a forecast series has 30 points, Day 1..30 in order, point i evaluated at the
\* i-th of 30 linearly spaced values from the minimum to the maximum Pressure and
\* Temperature of the complete rows; the report holds the prediction chart exactly
\* when the run produced the series.
C10_ForecastShape ==
    \A s \in active :
        /\ future_df[s] # <<>>
            => LET ml == DropNa(df[s].rows)
                   pLo == Min(Values(ml, "Pressure"))
                   pHi == Max(Values(ml, "Pressure"))
                   tLo == Min(Values(ml, "Temperature"))
                   tHi == Max(Values(ml, "Temperature"))
               IN  /\ Len(future_df[s]) = 30
                   /\ model[s].X = [i \in 1..Len(ml) |-> <<ml[i].Pressure[1], ml[i].Temperature[1]>>]
                   /\ future_df[s][1].at = [Pressure |-> pLo, Temperature |-> tLo]
                   /\ future_df[s][30].at = [Pressure |-> pHi, Temperature |-> tHi]
                   /\ \A i \in 1..30 :
                        LET pt == future_df[s][i]
                        IN  /\ pt.Day = i
                            /\ 29 * (pt.at.Pressure - pLo) <= (i - 1) * (pHi - pLo)
                            /\ (i - 1) * (pHi - pLo) < 29 * (pt.at.Pressure - pLo) + 29
                            /\ 29 * (pt.at.Temperature - tLo) <= (i - 1) * (tHi - tLo)
                            /\ (i - 1) * (tHi - tLo) < 29 * (pt.at.Temperature - tLo) + 29
        /\ pc[s] = "open"
            => ((\E i \in 1..Len(pdf[s]) : pdf[s][i].kind = "image" /\ pdf[s][i].text = "prediction.png")
                <=> future_df[s] # <<>>)

C10_Witness ==
    \E s \in active :
        /\ pc[s] = "open" /\ Len(future_df[s]) = 30
        /\ future_df[s][1].at.Pressure < future_df[s][30].at.Pressure

====
